---- MODULE Spec2Model ----
(***************************************************************************)
(* A model of daikinapi.py: the client of a Daikin air conditioner's HTTP  *)
(* interface.  Python strings are modelled as tuples of one-character      *)
(* strings, so that slicing, splitting, parsing and formatting are         *)
(* computed character by character as the code computes them.  Python      *)
(* dictionaries are functions from keys to values; insertion order, which  *)
(* none of the properties below speaks of, is not kept.                    *)
(***************************************************************************)
EXTENDS Integers, Sequences, FiniteSets, TLC

VARIABLES
    \* ---- the response parser (Daikin._get on one response body)
    groups,     \* the body as the device composed it: groups of "="-separated parts
    body,       \* the response text
    parsed,     \* what _get returned or raised
    \* ---- the schedule record codec (class Schedule)
    data,       \* the record handed to Schedule(...)
    sched,      \* the Schedule object
    touched,    \* the attributes reassigned since construction
    out,        \* what to_str() returned
    \* ---- the clients and the device
    host,       \* Daikin._host of each client
    device,     \* the fields the device holds, per endpoint
    pc,         \* where each client's current operation stands
    op,         \* the operation each client is running
    fetched,    \* the dictionary a setter got from its fetch and then changed
    seen,       \* the fields the device held when the operation's fetch was served
    reqs,       \* the requests the current operation has issued, in order
    result,     \* what the operation returned or raised
    overwritten,\* per client: the <<field, value>> other clients wrote since its fetch
    lastWriter, \* the client whose write the device applied last
    nops        \* operations started so far

parseVars == <<groups, body, parsed>>
schedVars == <<data, sched, touched, out>>
sysVars == <<host, device, pc, op, fetched, seen, reqs, result, overwritten,
             lastWriter, nops>>
vars == <<parseVars, schedVars, sysVars>>

----------------------------------------------------------------------------
(* Strings and dictionaries *)

Min(a, b) == IF a < b THEN a ELSE b

\* s[i:j] with 0 <= i <= j, Python's slice (clipped to the string)
Slice(s, i, j) == SubSeq(s, i + 1, Min(j, Len(s)))

\* ss[lo] \o ... \o ss[hi], by halves
RECURSIVE ConcatRange(_, _, _)
ConcatRange(ss, lo, hi) ==
    IF lo > hi THEN <<>>
    ELSE IF lo = hi THEN ss[lo]
    ELSE LET mid == (lo + hi) \div 2
         IN  ConcatRange(ss, lo, mid) \o ConcatRange(ss, mid + 1, hi)

Concat(ss) == ConcatRange(ss, 1, Len(ss))

\* sep.join(ss) for a one-character separator
Join(ss, sep) ==
    Concat([i \in 1..Len(ss) |-> IF i = 1 THEN ss[1] ELSE <<sep>> \o ss[i]])

\* The parts of s[lo..hi] between the separators, by halves: the last part of
\* the left half and the first part of the right half are one part.
RECURSIVE SplitRange(_, _, _, _)
SplitRange(s, sep, lo, hi) ==
    IF lo > hi THEN << <<>> >>
    ELSE IF lo = hi THEN (IF s[lo] = sep THEN << <<>>, <<>> >> ELSE << <<s[lo]>> >>)
    ELSE LET mid   == (lo + hi) \div 2
             left  == SplitRange(s, sep, lo, mid)
             right == SplitRange(s, sep, mid + 1, hi)
         IN  SubSeq(left, 1, Len(left) - 1)
             \o << left[Len(left)] \o right[1] >>
             \o SubSeq(right, 2, Len(right))

\* str.split(sep) for a one-character separator: the texts between the
\* separators, always at least one part
split(s, sep) == SplitRange(s, sep, 1, Len(s))

EmptyDict == [k \in {} |-> <<>>]

\* d[k] = v
Put(d, k, v) == [x \in DOMAIN d \cup {k} |-> IF x = k THEN v ELSE d[x]]

\* del d[k]
Del(d, k) == [x \in DOMAIN d \ {k} |-> d[x]]

Digits == <<"0", "1", "2", "3", "4", "5", "6", "7", "8", "9">>

IsDigit(c) == \E i \in 1..10 : Digits[i] = c

DigitVal(c) == (CHOOSE i \in 1..10 : Digits[i] = c) - 1

HexDigits == <<"0", "1", "2", "3", "4", "5", "6", "7", "8", "9",
               "A", "B", "C", "D", "E", "F", "a", "b", "c", "d", "e", "f">>

IsHex(c) == \E i \in 1..22 : HexDigits[i] = c

HexVal(c) ==
    LET i == CHOOSE i \in 1..22 : HexDigits[i] = c
    IN  IF i <= 16 THEN i - 1 ELSE i - 7

\* The characters of the code points the escapes of the model decode to.
Chr(n) ==
    CASE n = 37 -> "%"
      [] n = 44 -> ","
      [] n = 61 -> "="
      [] n = 65 -> "A"
      [] n = 75 -> "K"

\* urllib.parse.unquote on ASCII escapes: "%" and two hex digits become the
\* character of that code, any other "%" stays as it is.
RECURSIVE unquote(_)
unquote(s) ==
    IF s = <<>> THEN <<>>
    ELSE IF s[1] = "%" /\ Len(s) >= 3 /\ IsHex(s[2]) /\ IsHex(s[3])
         THEN <<Chr(16 * HexVal(s[2]) + HexVal(s[3]))>> \o unquote(SubSeq(s, 4, Len(s)))
         ELSE <<s[1]>> \o unquote(Tail(s))

----------------------------------------------------------------------------
(* Daikin._get: the response parser *)

\* A mutant of FieldValue: the name is kept percent-escaped.
FieldValueRaw(element) == element[2]

\* What the loop's body stores under element[0]
FieldValue(element) ==
    IF element[1] = <<"n", "a", "m", "e">> THEN unquote(element[2]) ELSE element[2]

\* The loop over response.text.split(","): element[1] of a group without "="
\* raises IndexError; of the groups of one key the last one's value stays.
ParseGroups(gs) ==
    LET elements == <<>> \o [i \in 1..Len(gs) |-> split(gs[i], "=")]
        last(k) == CHOOSE i \in 1..Len(gs) :
                       /\ elements[i][1] = k
                       /\ \A j \in (i + 1)..Len(gs) : elements[j][1] # k
    IN  IF \E i \in 1..Len(gs) : Len(elements[i]) < 2
        THEN [kind |-> "IndexError", fields |-> EmptyDict]
        ELSE [kind |-> "dict",
              fields |-> [k \in { elements[i][1] : i \in 1..Len(gs) } |->
                              FieldValue(elements[last(k)])]]

None == [kind |-> "None", fields |-> EmptyDict]

\* What _get makes of the text of a response whose status is no error.
ParseResponse(text) ==
    IF ~(Len(text) > 0) \/ ~(Slice(text, 0, 4) = <<"r", "e", "t", "=">>)
    THEN None
    ELSE ParseGroups(split(text, ","))

\* The statuses a response of the model may carry.
StatusCodes == {200, 404, 500}

\* requests' Response.raise_for_status(): 4xx and 5xx raise HTTPError.
raise_for_status(status_code) == 400 <= status_code /\ status_code < 600

HTTPError == [kind |-> "HTTPError", fields |-> EmptyDict]

\* A mutant of _get: the status of the response is not looked at.
GetIgnoringStatus(response) == ParseResponse(response.text)

\* Daikin._get, given the response requests.get returned.
_get(response) ==
    IF raise_for_status(response.status_code) THEN HTTPError
    ELSE ParseResponse(response.text)

----------------------------------------------------------------------------
(* The response bodies the parser is run on.  A body is composed of groups  *)
(* joined by ",", a group of parts joined by "=".  A part is a text free of *)
(* "," and "=" together with what that text percent-decodes to, as written *)
(* by hand from the definition of percent-encoding.                         *)

MaxGroups == 2

Part(text, plain) == [text |-> text, plain |-> plain]

Same(text) == Part(text, text)

KeyParts == { Same(<<"n", "a", "m", "e">>), Same(<<"k">>) }

ValueParts ==
    { Part(<<"%", "4", "1">>, <<"A">>),
      Part(<<"%", "2", "c", "%", "4">>, <<",", "%", "4">>),
      Same(<<"v">>),
      Same(<<>>) }

\* "k" and "" (no "="), "k=v", and "k=v=v" (a second "=").
GroupShapes ==
    { <<k>> : k \in {Same(<<"k">>), Same(<<>>)} }
    \cup { <<k, v>> : k \in KeyParts, v \in ValueParts }
    \cup { <<k, v, Same(<<"v">>)>> : k \in KeyParts, v \in ValueParts }

FirstGroups ==
    { <<Same(<<>>)>>,
      <<Same(<<"r", "e", "t">>)>>,
      <<Same(<<"r", "e", "t">>), Same(<<>>)>>,
      <<Same(<<"r", "e", "t">>), Same(<<"O", "K">>)>>,
      <<Same(<<"k">>), Same(<<"O", "K">>)>>,
      <<Same(<<"r", "e", "t">>), Same(<<"O", "K">>), Same(<<"v">>)>> }

RECURSIVE GroupLists(_)
GroupLists(n) ==
    IF n = 0 THEN { <<>> }
    ELSE GroupLists(n - 1)
         \cup { Append(gs, g) : gs \in { x \in GroupLists(n - 1) : Len(x) = n - 1 },
                                g \in GroupShapes }

Bodies == { <<f>> \o gs : f \in FirstGroups, gs \in GroupLists(MaxGroups) }

Texts(parts) == [i \in 1..Len(parts) |-> parts[i].text]

Plains(parts) == [i \in 1..Len(parts) |-> parts[i].plain]

GroupText(g) == Join(Texts(g), "=")

BodyText(gs) == Join([i \in 1..Len(gs) |-> GroupText(gs[i])], ",")

ParseIdle ==
    /\ groups = <<>>
    /\ body = <<>>
    /\ parsed = [kind |-> "idle", fields |-> EmptyDict]

ParseInit ==
    /\ groups \in Bodies
    /\ body = BodyText(groups)
    /\ parsed = [kind |-> "pending", fields |-> EmptyDict]

\* _get is handed the body with a status that is no error.
Get ==
    /\ parsed.kind = "pending"
    /\ parsed' = _get([status_code |-> 200, text |-> body])
    /\ UNCHANGED <<groups, body, schedVars, sysVars>>

----------------------------------------------------------------------------
(* Python numbers and their texts *)

\* str(n) of an int n >= 0
RECURSIVE IntStr(_)
IntStr(n) ==
    IF n < 10 THEN <<Digits[n + 1]>>
    ELSE IntStr(n \div 10) \o <<Digits[(n % 10) + 1]>>

\* "{:04}".format(n) of an int n >= 0: zeros in front up to a width of four
Pad04(n) ==
    LET t == IntStr(n)
    IN  [i \in 1..(4 - Min(4, Len(t))) |-> "0"] \o t

AllDigits(s) == Len(s) > 0 /\ \A i \in 1..Len(s) : IsDigit(s[i])

RECURSIVE DigitsVal(_)
DigitsVal(s) ==
    IF s = <<>> THEN 0 ELSE 10 * DigitsVal(SubSeq(s, 1, Len(s) - 1)) + DigitVal(s[Len(s)])

Unsigned(s) == IF Len(s) > 0 /\ s[1] \in {"+", "-"} THEN Tail(s) ELSE s

Negative(s) == Len(s) > 0 /\ s[1] = "-"

\* int(s) of a text: an optional sign and decimal digits, anything else
\* raises ValueError.
int(s) ==
    IF AllDigits(Unsigned(s))
    THEN [ok |-> TRUE,
          v |-> IF Negative(s) THEN 0 - DigitsVal(Unsigned(s)) ELSE DigitsVal(Unsigned(s))]
    ELSE [ok |-> FALSE, v |-> 0]

\* A Python number: an int, or a float with at most three decimals, kept as
\* its sign and its thousandths.
Number(type, neg, milli) == [type |-> type, neg |-> neg, milli |-> milli]

\* d, d0 or d00 thousandths for one, two or three decimals
RECURSIVE Scale(_, _)
Scale(v, n) == IF n = 0 THEN v ELSE Scale(10 * v, n - 1)

\* float(s) of a text of an optional sign and digits with at most one point,
\* at least one digit and at most three decimals; a text that is no numeral
\* raises ValueError.
float(s) ==
    LET u     == Unsigned(s)
        parts == split(u, ".")
        whole == parts[1]
        frac  == IF Len(parts) = 2 THEN parts[2] ELSE <<>>
        wellFormed ==
            /\ Len(parts) <= 2
            /\ Len(whole) + Len(frac) > 0
            /\ \A i \in 1..Len(whole) : IsDigit(whole[i])
            /\ \A i \in 1..Len(frac) : IsDigit(frac[i])
            /\ Len(frac) <= 3
    IN  IF wellFormed
        THEN [ok |-> TRUE,
              v |-> Number("float", Negative(s),
                           1000 * DigitsVal(whole) + Scale(DigitsVal(frac), 3 - Len(frac)))]
        ELSE [ok |-> FALSE, v |-> Number("float", FALSE, 0)]

\* The decimals of a float's text: the thousandths without trailing zeros,
\* and one digit at least.
Decimals(m) ==
    IF m % 10 # 0 THEN <<Digits[(m \div 100) + 1], Digits[((m \div 10) % 10) + 1],
                         Digits[(m % 10) + 1]>>
    ELSE IF m % 100 # 0 THEN <<Digits[(m \div 100) + 1], Digits[((m \div 10) % 10) + 1]>>
    ELSE <<Digits[(m \div 100) + 1]>>

\* str(x), which "{}".format(x) writes: 19.0 gives "19.0", 9.0 gives "9.0",
\* the int 0 gives "0".
str(x) ==
    (IF x.neg THEN <<"-">> ELSE <<>>)
    \o IntStr(x.milli \div 1000)
    \o (IF x.type = "float" THEN <<".">> \o Decimals(x.milli % 1000) ELSE <<>>)

----------------------------------------------------------------------------
(* _make_time, _make_mins and class Schedule *)

\* datetime.time of midnight plus mins minutes: the day wraps around.
_make_time(mins) == [hour |-> (mins \div 60) % 24, minute |-> mins % 60]

_make_mins(time) == Pad04(time.hour * 60 + time.minute)

NoSchedule ==
    [active |-> FALSE, powered |-> FALSE, time |-> [hour |-> 0, minute |-> 0],
     mode |-> "-", temp |-> Number("int", FALSE, 0), fan_rate |-> "-"]

\* Schedule(data) for a record of 12 characters or more: the object, or the
\* ValueError of int() or float().
Schedule(d) ==
    LET active  == d[1] = "1"
        powered == d[2] = "1"
        mins    == int(Slice(d, 7, 11))
        temp    == float(Slice(d, 3, 7))
    IN  IF ~mins.ok THEN [kind |-> "ValueError", obj |-> NoSchedule]
        ELSE IF powered /\ ~temp.ok THEN [kind |-> "ValueError", obj |-> NoSchedule]
        ELSE [kind |-> "Schedule",
              obj |-> [active   |-> active,
                       powered  |-> powered,
                       time     |-> _make_time(mins.v),
                       mode     |-> IF powered THEN d[3] ELSE "-",
                       temp     |-> IF powered THEN temp.v ELSE Number("int", FALSE, 0),
                       fan_rate |-> IF powered THEN d[12] ELSE "-"]]

\* Schedule.to_str
to_str(self) ==
    Concat(<< <<IF self.active THEN "1" ELSE "0">>,
              <<IF self.powered THEN "1" ELSE "0">>,
              <<self.mode>>,
              IF self.powered THEN str(self.temp) ELSE <<"-", "-", "-", "-">>,
              _make_mins(self.time),
              <<self.fan_rate>>,
              <<"-", "-", "-", "-">>,
              IF self.powered THEN <<"1", "0">> ELSE <<"-", "-">> >>)

----------------------------------------------------------------------------
(* The records Schedule is run on, and the reassignments of its attributes *)

Dashes(n) == [i \in 1..n |-> "-"]

\* Texts for positions 3..6 of a powered record: temperatures as the device
\* writes them, other numerals of four characters, and no numeral at all.
TempTexts ==
    { <<"1", "9", ".", "0">>, <<"2", "5", ".", "5">>, <<"0", "9", ".", "0">>,
      <<"0", "0", "1", "9">>, <<"-", "5", ".", "0">>, <<"-", "-", "-", "-">> }

\* Texts for positions 7..10: minutes of the day, and 1500, which is none.
MinuteTexts ==
    { <<"0", "0", "0", "0">>, <<"0", "4", "2", "0">>, <<"1", "4", "3", "9">>,
      <<"1", "5", "0", "0">> }

Records ==
    { <<a, "1", "4">> \o t \o m \o <<"A">> \o Dashes(4) \o <<"1", "0">> :
        a \in {"0", "1"}, t \in TempTexts, m \in MinuteTexts }
    \cup { <<a, "0">> \o Dashes(5) \o m \o Dashes(7) :
        a \in {"0", "1"}, m \in MinuteTexts }

\* Values a caller assigns to Schedule.temp: 21.0, 25.5, 9.5 and the int 21.
TargetTemps ==
    { Number("float", FALSE, 21000), Number("float", FALSE, 25500),
      Number("float", FALSE, 9500), Number("int", FALSE, 21000) }

\* Values a caller assigns to Schedule.time.
Times == { [hour |-> 0, minute |-> 0], [hour |-> 7, minute |-> 30],
           [hour |-> 23, minute |-> 59] }

NoOut == [done |-> FALSE, text |-> <<>>]

SchedIdle ==
    /\ data = <<>>
    /\ sched = [kind |-> "idle", obj |-> NoSchedule]
    /\ touched = {}
    /\ out = NoOut

SchedInit ==
    /\ data \in Records
    /\ sched = [kind |-> "none", obj |-> NoSchedule]
    /\ touched = {}
    /\ out = NoOut

\* sched = Schedule(data)
Construct ==
    /\ sched.kind = "none"
    /\ sched' = Schedule(data)
    /\ UNCHANGED <<data, touched, out, parseVars, sysVars>>

\* sched.powered = not sched.powered
SetPowered ==
    /\ sched.kind = "Schedule"
    /\ "powered" \notin touched
    /\ sched' = [sched EXCEPT !.obj.powered = ~sched.obj.powered]
    /\ touched' = touched \cup {"powered"}
    /\ out' = NoOut
    /\ UNCHANGED <<data, parseVars, sysVars>>

\* sched.temp = t
SetTemp ==
    /\ sched.kind = "Schedule"
    /\ "temp" \notin touched
    /\ \E t \in TargetTemps : sched' = [sched EXCEPT !.obj.temp = t]
    /\ touched' = touched \cup {"temp"}
    /\ out' = NoOut
    /\ UNCHANGED <<data, parseVars, sysVars>>

\* sched.time = t
SetTime ==
    /\ sched.kind = "Schedule"
    /\ "time" \notin touched
    /\ \E t \in Times : sched' = [sched EXCEPT !.obj.time = t]
    /\ touched' = touched \cup {"time"}
    /\ out' = NoOut
    /\ UNCHANGED <<data, parseVars, sysVars>>

\* out = sched.to_str()
ToStr ==
    /\ sched.kind = "Schedule"
    /\ ~out.done
    /\ out' = [done |-> TRUE, text |-> to_str(sched.obj)]
    /\ UNCHANGED <<data, sched, touched, parseVars, sysVars>>

----------------------------------------------------------------------------
(* The device: the fields it holds and the responses it serves *)

K_ret == <<"r", "e", "t">>
K_pow == <<"p", "o", "w">>
K_mode == <<"m", "o", "d", "e">>
K_adv == <<"a", "d", "v">>
K_stemp == <<"s", "t", "e", "m", "p">>
K_shum == <<"s", "h", "u", "m">>
K_alert == <<"a", "l", "e", "r", "t">>
K_f_rate == <<"f", "_", "r", "a", "t", "e">>
K_f_dir == <<"f", "_", "d", "i", "r">>
K_format == <<"f", "o", "r", "m", "a", "t">>
K_target == <<"t", "a", "r", "g", "e", "t">>
K_en_scdltimer == <<"e", "n", "_", "s", "c", "d", "l", "t", "i", "m", "e", "r">>
K_name == <<"n", "a", "m", "e">>
K_mac == <<"m", "a", "c">>
K_today_runtime == <<"t", "o", "d", "a", "y", "_", "r", "u", "n", "t", "i", "m", "e">>
K_datas == <<"d", "a", "t", "a", "s">>
K_price_int == <<"p", "r", "i", "c", "e", "_", "i", "n", "t">>
K_price_dec == <<"p", "r", "i", "c", "e", "_", "d", "e", "c">>
K_htemp == <<"h", "t", "e", "m", "p">>
K_hhum == <<"h", "h", "u", "m">>
K_otemp == <<"o", "t", "e", "m", "p">>
K_err == <<"e", "r", "r">>
K_cmpfreq == <<"c", "m", "p", "f", "r", "e", "q">>
V_OK == <<"O", "K">>

\* Daikin._CONTROL_FIELDS
_CONTROL_FIELDS == <<K_f_dir, K_f_rate, K_mode, K_pow, K_shum, K_stemp>>

ControlFieldSet == { _CONTROL_FIELDS[i] : i \in 1..Len(_CONTROL_FIELDS) }

\* The days of the schedule, in the order of the code's two loops.
Days == << <<"m", "o">>, <<"t", "u">>, <<"w", "e">>, <<"t", "h">>, <<"f", "r">>, <<"s", "a">>, <<"s", "u">> >>

\* "{}c".format(day)
CountKey(day) == day \o <<"c">>

\* "{}{}".format(day, n)
EntryKey(day, n) == day \o IntStr(n)

\* The order in which the device writes the fields of get_control_info.
ControlOrder ==
    <<K_ret, K_pow, K_mode, K_adv, K_stemp, K_shum, K_alert, K_f_rate, K_f_dir>>

\* The fields of get_control_info when the model starts (the docstring's
\* example, without its dt, dh and dfr fields).
ControlStart ==
    (K_ret :> V_OK) @@ (K_pow :> <<"1">>) @@ (K_mode :> <<"4">>) @@ (K_adv :> <<>>)
    @@ (K_stemp :> <<"2", "1", ".", "0">>) @@ (K_shum :> <<"0">>) @@ (K_alert :> <<"2", "5", "5">>)
    @@ (K_f_rate :> <<"A">>) @@ (K_f_dir :> <<"0">>)

\* The endpoints whose fields no request of the model changes, as the list of
\* the groups of their response (the docstrings' examples, shortened).
StaticFields(path) ==
    CASE path = "/common/basic_info" ->
            << <<K_ret, V_OK>>, <<<<"t", "y", "p", "e">>, <<"a", "i", "r", "c", "o", "n">>>>, <<K_pow, <<"1">>>>,
               <<K_name, <<"%", "4", "1", "%", "2", "c", "%", "4", "b">>>>, <<<<"i", "d">>, <<>>>>, <<K_mac, <<"D", "0", "C", "5", "D", "3", "0", "4", "2", "E", "8", "2">>>> >>
      [] path = "/aircon/get_week_power" ->
            << <<K_ret, V_OK>>, <<K_today_runtime, <<"6", "0", "1">>>>, <<K_datas, <<"0", "/", "0", "/", "1", "0", "0", "0">>>> >>
      [] path = "/aircon/get_price" ->
            << <<K_ret, V_OK>>, <<K_price_int, <<"2", "7">>>>, <<K_price_dec, <<"0">>>> >>
      [] path = "/aircon/get_sensor_info" ->
            << <<K_ret, V_OK>>, <<K_htemp, <<"2", "4", ".", "0">>>>, <<K_hhum, <<"-">>>>,
               <<K_otemp, <<"-", "7", ".", "0">>>>, <<K_err, <<"0">>>>, <<K_cmpfreq, <<"4", "0">>>> >>

\* The keys of the groups of get_scdltimer_body, in the device's order: the
\* head, then each day's count and its entries.
RECURSIVE DayKeys(_, _, _)
DayKeys(fields, day, n) ==
    IF EntryKey(day, n) \in DOMAIN fields
    THEN <<EntryKey(day, n)>> \o DayKeys(fields, day, n + 1)
    ELSE <<>>

TimerOrder(fields) ==
    <<K_ret, K_format, K_target, K_en_scdltimer>>
    \o Concat([i \in 1..Len(Days) |->
                  <<CountKey(Days[i])>> \o DayKeys(fields, Days[i], 1)])

\* The text of a response: the groups key=value joined by ",".
Groups(fields, order) == [i \in 1..Len(order) |-> order[i] \o <<"=">> \o fields[order[i]]]

PairGroups(pairs) == [i \in 1..Len(pairs) |-> pairs[i][1] \o <<"=">> \o pairs[i][2]]

\* The text the device answers a GET of path with, its fields being dev.
Serve(dev, path) ==
    CASE path = "/aircon/get_control_info" -> Join(Groups(dev.control, ControlOrder), ",")
      [] path = "/aircon/get_scdltimer_body?target=1" ->
            Join(Groups(dev.timer, TimerOrder(dev.timer)), ",")
      [] OTHER -> Join(PairGroups(StaticFields(path)), ",")

\* The schedule entries of the docstring of _get_scdltimer, and one that is
\* not powered (the comment in Schedule.__init__).
RecFanB == <<"1", "1", "4", "1", "5", ".", "0", "1", "4", "1", "0", "B", "-", "-", "-", "-", "1", "0">>
RecFanA == <<"1", "1", "4", "1", "9", ".", "0", "0", "3", "6", "5", "A", "-", "-", "-", "-", "1", "0">>
RecOff == <<"1", "0", "-", "-", "-", "-", "-", "1", "2", "6", "0", "-", "-", "-", "-", "-", "-", "-">>

\* The fields of get_scdltimer_body when the model starts: the docstring's
\* example.
TimerStart ==
    LET head == (K_ret :> V_OK) @@ (K_format :> <<"v", "1">>) @@ (K_target :> <<"1">>)
                @@ (K_en_scdltimer :> <<"1">>)
        keys == { CountKey(Days[i]) : i \in 1..Len(Days) }
                \cup { EntryKey(Days[i], j) : i \in 1..Len(Days), j \in 1..2 }
        day(k) == SubSeq(k, 1, 2)
        late(k) == day(k) \in {<<"s", "a">>, <<"s", "u">>}
    IN  [k \in DOMAIN head \cup keys |->
            IF k \in DOMAIN head THEN head[k]
            ELSE IF k[3] = "c" THEN <<"2">>
            ELSE IF (k[3] = "1") = late(k) THEN RecFanA
            ELSE RecFanB]

\* The fields the device holds when the model starts.
DeviceStart == [control |-> ControlStart, timer |-> TimerStart]

\* The device takes the fields of a set_control_info request as its own.
ApplyControl(dev, params) ==
    [dev EXCEPT !.control =
        [k \in DOMAIN dev.control |-> IF k \in DOMAIN params THEN params[k] ELSE dev.control[k]]]

\* The device takes the fields of a set_scdltimer_body request as its
\* schedule: of each day the entries up to the day's count; ret and
\* en_scdltimer, which the request does not carry, stay.
ApplyTimer(dev, params) ==
    LET counted(k) ==
            \E i \in 1..Len(Days) :
                \E j \in 1..int(params[CountKey(Days[i])]).v : k = EntryKey(Days[i], j)
        entry(k) ==
            \E i \in 1..Len(Days) : \E j \in 1..9 : k = EntryKey(Days[i], j)
        kept == { k \in DOMAIN params : ~entry(k) \/ counted(k) }
    IN  [dev EXCEPT !.timer =
            [k \in kept \cup {K_ret, K_en_scdltimer} |->
                IF k \in kept THEN params[k] ELSE dev.timer[k]]]

----------------------------------------------------------------------------
(* class Daikin: the property getters *)

Clients == {"c1", "c2"}

\* The host each client was constructed with (Daikin.__init__).
HostOf(c) == IF c = "c1" THEN "192.168.1.3" ELSE "192.168.1.4"

\* What an operation returned or raised.
Outcome(kind, num, text, days) == [kind |-> kind, num |-> num, text |-> text, days |-> days]

NoNumber == Number("int", FALSE, 0)

Raised(kind) == Outcome(kind, NoNumber, <<>>, <<>>)

NoOutcome == Raised("none")

IsError(kind) ==
    kind \in {"HTTPError", "TypeError", "IndexError", "ValueError", "Exception"}

\* requests.get("http://" + self._host + path, params), and the status of
\* the response it got
Request(c, path, params, status_code) ==
    [url |-> <<"http://", host[c], path>>, params |-> params,
     status_code |-> status_code]

\* The response of the device to a GET of path: the status the model chose,
\* and the text of the fields the device holds.
Response(status_code, path) ==
    [status_code |-> status_code,
     text |-> IF status_code = 200 THEN Serve(device, path) ELSE <<>>]

\* A mutant of _get_control: the dictionary is kept as fetched.
GetControlAllFields(fields) == fields

\* Daikin._get_control(all_fields=False), given the dictionary of _get.
_get_control(fields) == [key \in ControlFieldSet |-> fields[key]]

\* The properties: the endpoint each fetches, the field it reads and the
\* conversion it returns.
PropertyNames ==
    {"power", "target_temperature", "target_humidity", "mode", "fan_rate",
     "fan_direction", "mac", "name", "today_runtime", "price_int",
     "compressor_frequency", "inside_temperature", "outside_temperature"}

Prop(path, key, conv) == [path |-> path, key |-> key, conv |-> conv]

Property(p) ==
    CASE p = "power" -> Prop("/aircon/get_control_info", K_pow, "int")
      [] p = "target_temperature" -> Prop("/aircon/get_control_info", K_stemp, "float")
      [] p = "target_humidity" -> Prop("/aircon/get_control_info", K_shum, "float")
      [] p = "mode" -> Prop("/aircon/get_control_info", K_mode, "int")
      [] p = "fan_rate" -> Prop("/aircon/get_control_info", K_f_rate, "str")
      [] p = "fan_direction" -> Prop("/aircon/get_control_info", K_f_dir, "int")
      [] p = "mac" -> Prop("/common/basic_info", K_mac, "str")
      [] p = "name" -> Prop("/common/basic_info", K_name, "str")
      [] p = "today_runtime" -> Prop("/aircon/get_week_power", K_today_runtime, "int")
      [] p = "price_int" -> Prop("/aircon/get_price", K_price_int, "int")
      [] p = "compressor_frequency" -> Prop("/aircon/get_sensor_info", K_cmpfreq, "int")
      [] p = "inside_temperature" -> Prop("/aircon/get_sensor_info", K_htemp, "float")
      [] p = "outside_temperature" -> Prop("/aircon/get_sensor_info", K_otemp, "float")

\* int(text), float(text) or the text itself, as what the property returns
Convert(conv, text) ==
    CASE conv = "int" ->
            LET r == int(text)
            IN  IF r.ok
                THEN Outcome("int", Number("int", r.v < 0,
                                           1000 * (IF r.v < 0 THEN 0 - r.v ELSE r.v)),
                             <<>>, <<>>)
                ELSE Raised("ValueError")
      [] conv = "float" ->
            LET r == float(text)
            IN  IF r.ok THEN Outcome("float", r.v, <<>>, <<>>) ELSE Raised("ValueError")
      [] conv = "str" -> Outcome("str", NoNumber, text, <<>>)

\* Subscripting what _get gave: its exception goes on to the caller, and None
\* has no fields (TypeError).
Failure(got) == Raised(IF got.kind = "None" THEN "TypeError" ELSE got.kind)

\* A property getter, given what _get returned: the conversion of the field
\* it reads (the control properties read it from what _get_control keeps).
Read(p, got) ==
    IF got.kind # "dict" THEN Failure(got)
    ELSE LET fields == IF Property(p).path = "/aircon/get_control_info"
                       THEN _get_control(got.fields)
                       ELSE got.fields
         IN  Convert(Property(p).conv, fields[Property(p).key])

\* A mutant of ReadProperty: the getter answers from the fields the device
\* held when the client was made, as a cache filled once would.
ReadPropertyCached(p, response) ==
    Read(p, _get([response EXCEPT !.text = Serve(DeviceStart, Property(p).path)]))

\* A property getter, given the response to its request.
ReadProperty(p, response) == Read(p, _get(response))

----------------------------------------------------------------------------
(* class Daikin: the control setters *)

MaxOps == 2

NoValue == [isList |-> FALSE, items |-> <<>>]

Op(kind, prop, key, value, days) ==
    [kind |-> kind, prop |-> prop, key |-> key, value |-> value, days |-> days]

NoOp == Op("idle", "", <<>>, <<>>, NoValue)

\* The values the callers of the model assign to a control property, as the
\* text requests writes them into the query.
SetterValues(key) ==
    CASE key = K_pow -> { <<"0">>, <<"1">> }
      [] key = K_mode -> { <<"3">> }
      [] key = K_stemp -> { <<"2", "5", ".", "5">> }
      [] key = K_shum -> { <<"5", "0">> }
      [] key = K_f_rate -> { <<"5">> }
      [] key = K_f_dir -> { <<"3">> }

\* The property whose setter calls _control_set with this key.
SetterOf(key) ==
    CASE key = K_pow -> "power"
      [] key = K_mode -> "mode"
      [] key = K_stemp -> "target_temperature"
      [] key = K_shum -> "target_humidity"
      [] key = K_f_rate -> "fan_rate"
      [] key = K_f_dir -> "fan_direction"

\* A mutant of ControlData: only the changed field is sent.
ControlDataOnlyKey(fields, key, value) == Put(EmptyDict, key, value)

\* data[key] = value in _control_set, data being what _get_control returned.
ControlData(fields, key, value) == Put(fields, key, value)

\* Daikin._set, given the response requests.get returned: None, or the
\* HTTPError of raise_for_status.
_set(response) ==
    IF raise_for_status(response.status_code) THEN Raised("HTTPError") ELSE Raised("None")

\* An operation starts: the client is at rest, and the model has operations left.
Start(c, o) ==
    /\ pc[c] = "idle"
    /\ nops < MaxOps
    /\ nops' = nops + 1
    /\ op' = [op EXCEPT ![c] = o]

\* The end of an operation's last step.
End(c, r) ==
    /\ result' = [result EXCEPT ![c] = r]
    /\ pc' = [pc EXCEPT ![c] = IF IsError(r.kind) THEN "raised" ELSE "returned"]

\* A property getter, from the call to its return: one request.
PropertyRead(c) ==
    \E p \in PropertyNames, status_code \in StatusCodes :
        LET path == Property(p).path
        IN  /\ Start(c, Op("read", p, <<>>, <<>>, NoValue))
            /\ reqs' = [reqs EXCEPT ![c] = <<Request(c, path, EmptyDict, status_code)>>]
            /\ seen' = [seen EXCEPT ![c] = device]
            /\ End(c, ReadProperty(p, Response(status_code, path)))
            /\ UNCHANGED <<host, device, fetched, overwritten, lastWriter>>
            /\ UNCHANGED <<parseVars, schedVars>>

\* _control_set, first line: data = self._get_control()
ControlFetch(c) ==
    \E key \in ControlFieldSet, status_code \in StatusCodes :
      \E value \in SetterValues(key) :
        LET path == "/aircon/get_control_info"
            got  == _get(Response(status_code, path))
        IN  /\ Start(c, Op("control_set", SetterOf(key), key, value, NoValue))
            /\ reqs' = [reqs EXCEPT ![c] = <<Request(c, path, EmptyDict, status_code)>>]
            /\ seen' = [seen EXCEPT ![c] = device]
            /\ overwritten' = [overwritten EXCEPT ![c] = {}]
            /\ IF got.kind = "dict"
               THEN /\ fetched' = [fetched EXCEPT ![c] = _get_control(got.fields)]
                    /\ pc' = [pc EXCEPT ![c] = "fetched"]
                    /\ UNCHANGED result
               ELSE /\ End(c, Failure(got))
                    /\ UNCHANGED fetched
            /\ UNCHANGED <<host, device, lastWriter, parseVars, schedVars>>

\* _control_set, the rest: data[key] = value, and the request of _set
ControlWrite(c) ==
    \E status_code \in StatusCodes :
        LET params == ControlData(fetched[c], op[c].key, op[c].value)
            r      == _set([status_code |-> status_code, text |-> <<>>])
            racing == { d \in Clients \ {c} : pc[d] = "fetched" /\ op[d].kind = "control_set" }
        IN  /\ pc[c] = "fetched"
            /\ op[c].kind = "control_set"
            /\ fetched' = [fetched EXCEPT ![c] = params]
            /\ reqs' = [reqs EXCEPT
                          ![c] = Append(@, Request(c, "/aircon/set_control_info", params,
                                            status_code))]
            /\ End(c, r)
            /\ IF status_code = 200
               THEN /\ device' = ApplyControl(device, params)
                    /\ lastWriter' = c
                    /\ overwritten' =
                          [d \in Clients |->
                              IF d \in racing
                              THEN overwritten[d] \cup {<<op[c].key, op[c].value>>}
                              ELSE overwritten[d]]
               ELSE UNCHANGED <<device, lastWriter, overwritten>>
            /\ UNCHANGED <<host, op, seen, nops, parseVars, schedVars>>

\* The caller has its value, or its exception: the operation's locals are gone.
Finish(c) ==
    /\ pc[c] \in {"returned", "raised"}
    /\ pc' = [pc EXCEPT ![c] = "idle"]
    /\ op' = [op EXCEPT ![c] = NoOp]
    /\ fetched' = [fetched EXCEPT ![c] = EmptyDict]
    /\ seen' = [seen EXCEPT ![c] = DeviceStart]
    /\ reqs' = [reqs EXCEPT ![c] = <<>>]
    /\ result' = [result EXCEPT ![c] = NoOutcome]
    /\ overwritten' = [overwritten EXCEPT ![c] = {}]
    /\ lastWriter' = IF lastWriter = c THEN "none" ELSE lastWriter
    /\ UNCHANGED <<host, device, nops, parseVars, schedVars>>

SysInit ==
    /\ host = [c \in Clients |-> HostOf(c)]
    /\ device = DeviceStart
    /\ pc = [c \in Clients |-> "idle"]
    /\ op = [c \in Clients |-> NoOp]
    /\ fetched = [c \in Clients |-> EmptyDict]
    /\ seen = [c \in Clients |-> DeviceStart]
    /\ reqs = [c \in Clients |-> <<>>]
    /\ result = [c \in Clients |-> NoOutcome]
    /\ overwritten = [c \in Clients |-> {}]
    /\ lastWriter = "none"
    /\ nops = 0

----------------------------------------------------------------------------
(* class Daikin: the schedule property *)

\* len(value) == 7
WeekLength == 7

\* range(6): the entry keys of a day the setter deletes before it writes
EntrySlots == 6

MaxEntries == 1

SplitDay == 1

LongDay == 7

\* An element of a day's list: a Schedule object, or something else.
Entry(obj) == [isSchedule |-> TRUE, obj |-> obj]

NotASchedule == [isSchedule |-> FALSE, obj |-> NoSchedule]

\* The objects the callers of the model put into a day's list, in turn.
EntryPool(j) ==
    CASE j % 3 = 1 -> Entry(Schedule(RecFanA).obj)
      [] j % 3 = 2 -> Entry(Schedule(RecOff).obj)
      [] j % 3 = 0 -> Entry(Schedule(RecFanB).obj)

DayList(n) == [j \in 1..n |-> EntryPool(j)]

ShortLists == { DayList(n) : n \in 0..MaxEntries }

DayLists == ShortLists \cup { DayList(LongDay) }

\* Lists of seven lists of Schedule objects: one list, which may be a long
\* one, for the first days of the week, one for the others.
ValidValues ==
    { [isList |-> TRUE,
       items |-> [i \in 1..WeekLength |-> IF i <= SplitDay THEN l1 ELSE l2]] :
        l1 \in DayLists, l2 \in ShortLists }

\* No list, a list of six and of eight days, and lists of seven days with an
\* element that is no Schedule.
InvalidValues ==
    { [isList |-> FALSE, items |-> <<>>],
      [isList |-> TRUE, items |-> [i \in 1..(WeekLength - 1) |-> DayList(1)]],
      [isList |-> TRUE, items |-> [i \in 1..(WeekLength + 1) |-> DayList(1)]],
      [isList |-> TRUE,
       items |-> [i \in 1..WeekLength |->
                     IF i = 3 THEN <<EntryPool(1), NotASchedule>> ELSE DayList(1)]],
      [isList |-> TRUE,
       items |-> [i \in 1..WeekLength |->
                     IF i = WeekLength THEN <<NotASchedule>> ELSE DayList(2)]] }

ScheduleValues == ValidValues \cup InvalidValues

\* The body of the getter's loop over the days, d being what _get_scdltimer
\* returned.  (A count or an entry that decodes to no value raises.)
DayTasks(d, day) ==
    [i \in 1..int(d[CountKey(day)]).v |-> Schedule(d[EntryKey(day, i)]).obj]

\* A mutant of ScheduleOf: after the first, an entry is read one key too low.
ScheduleOfFromZero(d) ==
    [n \in 1..Len(Days) |->
        [i \in 1..int(d[CountKey(Days[n])]).v |->
            Schedule(d[EntryKey(Days[n], IF i = 1 THEN 1 ELSE i - 1)]).obj]]

\* The schedule getter's list.
ScheduleOf(d) == [n \in 1..Len(Days) |-> DayTasks(d, Days[n])]

ScheduleDecodes(d) ==
    \A n \in 1..Len(Days) :
        /\ int(d[CountKey(Days[n])]).ok
        /\ \A i \in 1..int(d[CountKey(Days[n])]).v :
              Schedule(d[EntryKey(Days[n], i)]).kind = "Schedule"

ReadSchedule(response) ==
    LET got == _get(response)
    IN  IF got.kind # "dict" THEN Failure(got)
        ELSE IF ~ScheduleDecodes(got.fields) THEN Raised("ValueError")
        ELSE Outcome("list", NoNumber, <<>>, ScheduleOf(got.fields))

\* The setter's first test.
InvalidSchedule(value) == ~value.isList \/ ~(Len(value.items) = WeekLength)

\* The third inner loop: data[day + str(j+1)] = sched.to_str()
PutEntries(d, day, entries) ==
    LET new == { EntryKey(day, j) : j \in 1..Len(entries) }
        at(k) == CHOOSE j \in 1..Len(entries) : EntryKey(day, j) = k
    IN  [k \in DOMAIN d \cup new |-> IF k \in new THEN to_str(entries[at(k)].obj) ELSE d[k]]

\* A mutant of SetDay: the day's fetched entries are not deleted.
SetDayKeepingOld(d, day, entries) ==
    PutEntries(Put(d, CountKey(day), IntStr(Len(entries))), day, entries)

\* One turn of the setter's loop over the days: the count (as requests writes
\* it), the deletion of the day's keys 1..6, the new entries.
SetDay(d, day, entries) ==
    LET counted == Put(d, CountKey(day), IntStr(Len(entries)))
        slots   == { EntryKey(day, j) : j \in 1..EntrySlots }
        cleared == [k \in DOMAIN counted \ slots |-> counted[k]]
    IN  PutEntries(cleared, day, entries)

RECURSIVE SetDays(_, _, _)
SetDays(d, value, i) ==
    IF i > Len(Days) THEN d
    ELSE SetDays(SetDay(d, Days[i], value.items[i]), value, i + 1)

\* A mutant of HasNoSchedule: only the first element of a day is tested.
HasNoScheduleFirst(value) ==
    \E i \in 1..Len(value.items) :
        Len(value.items[i]) > 0 /\ ~value.items[i][1].isSchedule

\* Whether the loops raise "Invalid schedule" on an element.
HasNoSchedule(value) ==
    \E i \in 1..Len(value.items) : \E j \in 1..Len(value.items[i]) :
        ~value.items[i][j].isSchedule

\* The dictionary the setter hands to _set.
TimerData(d, value) == Del(Del(SetDays(d, value, 1), K_en_scdltimer), K_ret)

\* The schedule getter, from the call to its return: one request.
ScheduleRead(c) ==
    \E status_code \in StatusCodes :
        LET path == "/aircon/get_scdltimer_body?target=1"
        IN  /\ Start(c, Op("schedule_get", "schedule", <<>>, <<>>, NoValue))
            /\ reqs' = [reqs EXCEPT ![c] = <<Request(c, path, EmptyDict, status_code)>>]
            /\ seen' = [seen EXCEPT ![c] = device]
            /\ End(c, ReadSchedule(Response(status_code, path)))
            /\ UNCHANGED <<host, device, fetched, overwritten, lastWriter>>
            /\ UNCHANGED <<parseVars, schedVars>>

\* The schedule setter up to data = self._get_scdltimer()
ScheduleFetch(c) ==
    \E value \in ScheduleValues, status_code \in StatusCodes :
        LET path == "/aircon/get_scdltimer_body?target=1"
            got  == _get(Response(status_code, path))
        IN  /\ Start(c, Op("schedule_set", "schedule", <<>>, <<>>, value))
            /\ seen' = [seen EXCEPT ![c] = device]
            /\ IF InvalidSchedule(value)
               THEN /\ End(c, Raised("Exception"))
                    /\ UNCHANGED <<fetched, reqs>>
               ELSE /\ reqs' = [reqs EXCEPT ![c] = <<Request(c, path, EmptyDict, status_code)>>]
                    /\ IF got.kind = "dict"
                       THEN /\ fetched' = [fetched EXCEPT ![c] = got.fields]
                            /\ pc' = [pc EXCEPT ![c] = "fetched"]
                            /\ UNCHANGED result
                       ELSE /\ End(c, Failure(got))
                            /\ UNCHANGED fetched
            /\ UNCHANGED <<host, device, overwritten, lastWriter, parseVars, schedVars>>

\* The schedule setter's loops, its two deletions and the request of _set
ScheduleWrite(c) ==
    \E status_code \in StatusCodes :
        LET params == TimerData(fetched[c], op[c].days)
            r      == _set([status_code |-> status_code, text |-> <<>>])
        IN  /\ pc[c] = "fetched"
            /\ op[c].kind = "schedule_set"
            /\ IF HasNoSchedule(op[c].days)
               THEN /\ End(c, Raised("Exception"))
                    /\ UNCHANGED <<fetched, reqs, device, lastWriter>>
               ELSE /\ fetched' = [fetched EXCEPT ![c] = params]
                    /\ reqs' = [reqs EXCEPT
                          ![c] = Append(@, Request(c, "/aircon/set_scdltimer_body", params,
                                            status_code))]
                    /\ End(c, r)
                    /\ IF status_code = 200
                       THEN /\ device' = ApplyTimer(device, params)
                            /\ lastWriter' = c
                       ELSE UNCHANGED <<device, lastWriter>>
            /\ UNCHANGED <<host, op, seen, overwritten, nops, parseVars, schedVars>>

----------------------------------------------------------------------------
(* The specifications *)

\* Two clients of one device read the properties and run the control setters.
Init == ParseIdle /\ SchedIdle /\ SysInit

Next == \E c \in Clients : PropertyRead(c) \/ ControlFetch(c) \/ ControlWrite(c) \/ Finish(c)

Spec == Init /\ [][Next]_vars

\* _get on one response body.
InitParse == ParseInit /\ SchedIdle /\ SysInit

NextParse == Get

SpecParse == InitParse /\ [][NextParse]_vars

\* A Schedule is made of a record, has attributes reassigned and is written.
InitSchedule == ParseIdle /\ SchedInit /\ SysInit

NextSchedule == Construct \/ SetPowered \/ SetTemp \/ SetTime \/ ToStr

SpecSchedule == InitSchedule /\ [][NextSchedule]_vars

\* One client runs every operation of the model, the schedule's included.
NextTimer ==
    \/ PropertyRead("c1")
    \/ ControlFetch("c1")
    \/ ControlWrite("c1")
    \/ ScheduleRead("c1")
    \/ ScheduleFetch("c1")
    \/ ScheduleWrite("c1")
    \/ Finish("c1")

SpecTimer == Init /\ [][NextTimer]_vars

----------------------------------------------------------------------------
(* The response parser: C3 *)

ParsedDone == parsed.kind \notin {"idle", "pending"}

\* The body starts with "ret=": its first group is ret=...
StartsWithRet ==
    /\ Len(groups[1]) >= 2
    /\ groups[1][1].text = <<"r", "e", "t">>

KeyOf(g) == g[1].text

\* The v of a group k=v: what follows the first "=", percent-decoded for name.
ValueOf(g) ==
    IF KeyOf(g) = <<"n", "a", "m", "e">> THEN Join(Plains(Tail(g)), "=") ELSE Join(Texts(Tail(g)), "=")

KeyValueGroups == { i \in 1..Len(groups) : Len(groups[i]) >= 2 }

\* C3 as stated: for every body that starts with "ret=", _get returns a
\* dictionary with one entry for each comma-separated group k=v, mapping k to
\* v (the name percent-decoded, any other value verbatim); for an empty body
\* or one that does not start with "ret=" it returns None.
C3_EveryBodyParses ==
    ParsedDone =>
        IF StartsWithRet
        THEN /\ parsed.kind = "dict"
             /\ DOMAIN parsed.fields = { KeyOf(groups[i]) : i \in KeyValueGroups }
             /\ \A i \in KeyValueGroups : parsed.fields[KeyOf(groups[i])] = ValueOf(groups[i])
        ELSE parsed = None

\* Every group is k=v with one "=".
WellGrouped == \A i \in 1..Len(groups) : Len(groups[i]) = 2

LastWith(k) ==
    CHOOSE i \in 1..Len(groups) :
        KeyOf(groups[i]) = k /\ \A j \in (i + 1)..Len(groups) : KeyOf(groups[j]) # k

\* C3, amended: for every body that starts with "ret=" and whose every
\* comma-separated group has exactly one "=", _get returns a dictionary whose
\* keys are the groups' k, each mapped to the v of the last group with that k
\* (the name percent-decoded, any other value verbatim); for an empty body or
\* one that does not start with "ret=" it returns None.
C3_WellGroupedBodyParses ==
    ParsedDone =>
        /\ (StartsWithRet /\ WellGrouped) =>
              /\ parsed.kind = "dict"
              /\ DOMAIN parsed.fields = { KeyOf(groups[i]) : i \in 1..Len(groups) }
              /\ \A k \in DOMAIN parsed.fields : parsed.fields[k] = ValueOf(groups[LastWith(k)])
        /\ ~StartsWithRet => parsed = None

\* C3's case: a body ret=...,name=<escaped>,k=v has been parsed.
C3_Witness ==
    /\ parsed.kind = "dict"
    /\ WellGrouped
    /\ Len(groups) = 3
    /\ KeyOf(groups[2]) = <<"n", "a", "m", "e">>
    /\ groups[2][2].text # groups[2][2].plain
    /\ KeyOf(groups[3]) = <<"k">>

----------------------------------------------------------------------------
(* The schedule record codec: C4, C5 *)

\* A record as C4 describes it: the flags 0 or 1; when powered a mode
\* character, a temperature of four characters, a minute of the day in four
\* digits, a fan-rate character, "----" and "10"; when not powered dashes
\* everywhere but in the flags and the minute of the day.
WellFormedRecord(d) ==
    /\ Len(d) = 18
    /\ d[1] \in {"0", "1"}
    /\ d[2] \in {"0", "1"}
    /\ \A i \in 8..11 : IsDigit(d[i])
    /\ DigitsVal(SubSeq(d, 8, 11)) < 24 * 60
    /\ IF d[2] = "1"
       THEN /\ float(SubSeq(d, 4, 7)).ok
            /\ SubSeq(d, 13, 18) = <<"-", "-", "-", "-", "1", "0">>
       ELSE /\ SubSeq(d, 3, 7) = Dashes(5)
            /\ SubSeq(d, 12, 18) = Dashes(7)

\* The temperature is written the way str writes a float: 19.0, not 09.0 or 0019.
CanonicalTemp(d) == d[2] = "1" => str(float(SubSeq(d, 4, 7)).v) = SubSeq(d, 4, 7)

\* C4 as stated: for every well-formed record s, Schedule(s).to_str()
\* returns s.
C4_RoundTrip ==
    (out.done /\ touched = {} /\ WellFormedRecord(data)) => out.text = data

\* The round trip of the records whose temperature is written as str writes it.
RoundTripCanonical ==
    (out.done /\ touched = {} /\ WellFormedRecord(data) /\ CanonicalTemp(data))
        => out.text = data

\* C5 as stated: every record to_str produces has 18 characters, for a
\* Schedule decoded from a record of 18 characters and after any of powered,
\* temp and time has been reassigned.
C5_AlwaysEighteen == out.done => Len(out.text) = 18

----------------------------------------------------------------------------
(* The control setters and the getters: C1, C2, C7 *)

UrlOf(c, path) == <<"http://", HostOf(c), path>>

\* The request _control_set ends with: the six control fields, the setter's
\* one with the new value, the others as the device held them at the fetch.
WrittenBack(c) ==
    [k \in {<<"f", "_", "d", "i", "r">>, <<"f", "_", "r", "a", "t", "e">>, <<"m", "o", "d", "e">>, <<"p", "o", "w">>, <<"s", "h", "u", "m">>, <<"s", "t", "e", "m", "p">>} |->
        IF k = op[c].key THEN op[c].value ELSE seen[c].control[k]]

\* C1: a control setter issues one fetch of /aircon/get_control_info and then
\* one request to /aircon/set_control_info, whose fields are the six control
\* fields, the setter's own with the new value and the other five as just
\* fetched.  (A setter whose fetch raised has issued the fetch alone.)
C1_SetterWritesAllFieldsBack ==
    \A c \in Clients :
        op[c].kind = "control_set" =>
            /\ Len(reqs[c]) \in {1, 2}
            /\ reqs[c][1].url = UrlOf(c, "/aircon/get_control_info")
            /\ reqs[c][1].params = EmptyDict
            /\ pc[c] = "returned" => Len(reqs[c]) = 2
            /\ Len(reqs[c]) = 2 =>
                  /\ reqs[c][2].url = UrlOf(c, "/aircon/set_control_info")
                  /\ reqs[c][2].params = WrittenBack(c)

\* C1's case: a setter has returned after changing its field's value, the
\* device having been changed by an earlier setter.
C1_Witness ==
    \E c \in Clients :
        /\ op[c].kind = "control_set"
        /\ pc[c] = "returned"
        /\ op[c].value # seen[c].control[op[c].key]
        /\ seen[c].control # ControlStart

\* The writes of other fields that reached the device between the fetch and
\* the write of client c's setter.
Overtaken(c) == { w \in overwritten[c] : w[1] # op[c].key }

\* C2: when another client's write of a different field reaches the device
\* between a setter's fetch and its write, the setter's write puts that field
\* back to the value it had at the fetch.
C2_WriteRestoresOldValue ==
    \A c \in Clients :
        (op[c].kind = "control_set" /\ pc[c] = "returned" /\ lastWriter = c) =>
            \A w \in Overtaken(c) : device.control[w[1]] = seen[c].control[w[1]]

\* C2's case: the other client's write had changed its field, and the change
\* is gone.
C2_Witness ==
    \E c \in Clients :
        /\ op[c].kind = "control_set"
        /\ pc[c] = "returned"
        /\ lastWriter = c
        /\ \E w \in Overtaken(c) :
              /\ w[2] # seen[c].control[w[1]]
              /\ device.control[w[1]] # w[2]

\* The name the device holds; its responses carry it percent-encoded.
DeviceName == <<"A", ",", "K">>

\* The value the device dev holds for the field a property reads.
Held(dev, p) ==
    LET pairs == StaticFields(Property(p).path)
    IN  IF Property(p).path = "/aircon/get_control_info" THEN dev.control[Property(p).key]
        ELSE IF p = "name" THEN DeviceName
        ELSE pairs[CHOOSE i \in 1..Len(pairs) : pairs[i][1] = Property(p).key][2]

----------------------------------------------------------------------------
(* HTTP errors and the schedule property: C6, C8, C9, C10 *)

Failed(r) == r.status_code # 200

\* C6: a request the device answers with an HTTP error status is the last
\* request of its operation (it is not retried, and nothing follows it), and
\* the operation ends raising HTTPError: it returns no value.
C6_HttpErrorIsRaised ==
    \A c \in Clients : \A i \in 1..Len(reqs[c]) :
        Failed(reqs[c][i]) =>
            /\ i = Len(reqs[c])
            /\ pc[c] = "raised"
            /\ result[c] = Raised("HTTPError")

\* C6's case: the write of a setter got an error status after its fetch
\* had succeeded.
C6_Witness ==
    \E c \in Clients :
        /\ op[c].kind \in {"control_set", "schedule_set"}
        /\ Len(reqs[c]) = 2
        /\ Failed(reqs[c][2])
        /\ pc[c] = "raised"

\* A key of the schedule's fields that names the j-th entry of a day.
IsEntryKey(k) == Len(k) = 3 /\ IsDigit(k[3]) /\ \E i \in 1..Len(Days) : SubSeq(k, 1, 2) = Days[i]

IsCountKey(k) == \E i \in 1..Len(Days) : k = CountKey(Days[i])

\* The schedule setter of client c has sent its write.
ScheduleSent(c) == op[c].kind = "schedule_set" /\ Len(reqs[c]) = 2

\* The fields of the write, those of the fetch before it, the value given.
Sent(c) == reqs[c][2].params

Fetched(c) == seen[c].timer

Given(c, n) == op[c].days.items[n]

\* What C8 says of the count and of the entries given, of ret and
\* en_scdltimer, and of the fields that belong to no day.
SentAsGiven(c) ==
    /\ reqs[c][2].url = UrlOf(c, "/aircon/set_scdltimer_body")
    /\ \A n \in 1..Len(Days) :
          /\ Sent(c)[CountKey(Days[n])] = IntStr(Len(Given(c, n)))
          /\ \A j \in 1..Len(Given(c, n)) :
                /\ EntryKey(Days[n], j) \in DOMAIN Sent(c)
                /\ Sent(c)[EntryKey(Days[n], j)] = to_str(Given(c, n)[j].obj)
    /\ K_ret \notin DOMAIN Sent(c)
    /\ K_en_scdltimer \notin DOMAIN Sent(c)
    /\ \A k \in (DOMAIN Sent(c) \cup DOMAIN Fetched(c)) \ {K_ret, K_en_scdltimer} :
          (~IsEntryKey(k) /\ ~IsCountKey(k)) =>
              /\ k \in DOMAIN Sent(c)
              /\ k \in DOMAIN Fetched(c)
              /\ Sent(c)[k] = Fetched(c)[k]

\* The entry keys the write carries for the n-th day.
SentEntries(c, n) == { k \in DOMAIN Sent(c) : IsEntryKey(k) /\ SubSeq(k, 1, 2) = Days[n] }

\* C8 as stated: the write of the schedule setter carries for each day the
\* count of the entries given and exactly the keys d1..dn with the entries
\* given, no entry key of the fetched schedule beyond n, neither ret nor
\* en_scdltimer, and the other fetched fields unchanged.
C8_NoEntryBeyondCount ==
    \A c \in Clients :
        ScheduleSent(c) =>
            /\ SentAsGiven(c)
            /\ \A n \in 1..Len(Days) :
                  SentEntries(c, n) = { EntryKey(Days[n], j) : j \in 1..Len(Given(c, n)) }

\* The entry keys of the fetched schedule the setter does not delete: those
\* of a day above the day's sixth.
Kept(c, n) ==
    { k \in DOMAIN Fetched(c) :
        IsEntryKey(k) /\ SubSeq(k, 1, 2) = Days[n] /\ DigitVal(k[3]) > EntrySlots }

\* C8, amended: as C8, but of the fetched entry keys of a day only d1..d6
\* are dropped; a fetched key d7 or above is sent on, with the fetched value
\* unless an entry given replaces it.
C8_NoEntryBeyondCountUpToSix ==
    \A c \in Clients :
        ScheduleSent(c) =>
            /\ SentAsGiven(c)
            /\ \A n \in 1..Len(Days) :
                  LET given == { EntryKey(Days[n], j) : j \in 1..Len(Given(c, n)) }
                  IN  /\ SentEntries(c, n) = given \cup Kept(c, n)
                      /\ \A k \in Kept(c, n) \ given : Sent(c)[k] = Fetched(c)[k]

\* C8's case: a write with fewer entries for a day than the fetched
\* schedule had, one of them a seventh.
C8_Witness ==
    \E c \in Clients :
        /\ ScheduleSent(c)
        /\ pc[c] = "returned"
        /\ Kept(c, 1) # {}
        /\ Len(Given(c, 1)) < EntrySlots
        /\ Len(Given(c, 2)) < int(Fetched(c)[CountKey(Days[2])]).v

NotSevenDays(value) == ~value.isList \/ Len(value.items) # WeekLength

SomeEntryNoSchedule(value) ==
    \E i \in 1..Len(value.items) : \E j \in 1..Len(value.items[i]) :
        ~value.items[i][j].isSchedule

IsSetter(c) == op[c].kind \in {"control_set", "schedule_set"}

C10_ScheduleGetter ==
    \A c \in Clients :
        (op[c].kind = "schedule_get" /\ pc[c] = "returned") =>
            /\ result[c].kind = "list"
            /\ Len(result[c].days) = WeekLength
            /\ \A n \in 1..WeekLength :
                  LET day == <<<<"m", "o">>, <<"t", "u">>, <<"w", "e">>, <<"t", "h">>, <<"f", "r">>, <<"s", "a">>, <<"s", "u">>>>[n]
                      list == result[c].days[n]
                  IN  /\ Len(list) = int(seen[c].timer[day \o <<"c">>]).v
                      /\ \A i \in 1..Len(list) :
                            list[i] = Schedule(seen[c].timer[day \o IntStr(i)]).obj

\* C10's case: the getter returns a schedule a setter wrote, with days of
\* seven entries, of one entry and of none.
C10_Witness ==
    \E c \in Clients :
        /\ op[c].kind = "schedule_get"
        /\ pc[c] = "returned"
        /\ seen[c].timer # TimerStart
        /\ Len(result[c].days[1]) = LongDay
        /\ \E n \in 1..WeekLength : Len(result[c].days[n]) <= 1
        /\ result[c].days[1][2] # result[c].days[1][1]

====
